---- MODULE Spec2Model ----
(***************************************************************************)
(* A model of the boxs data store: identity derivation, the box            *)
(* (store / load / info), the box registry and the filesystem storage.     *)
(*                                                                         *)
(* Strings whose characters matter (origins, data ids, run ids, file       *)
(* names) are sequences of one-character tokens, so that joining,          *)
(* sorting and suffix replacement are computed as the code computes them.  *)
(***************************************************************************)
EXTENDS Integers, Sequences, FiniteSets, TLC

None == "None"

\* None where a str of characters is expected.
NoneStr == <<"None">>

(***************************************************************************)
(* Bounds of the model.                                                    *)
(***************************************************************************)
MaxParents == 2

Range(s) == {s[i] : i \in 1..Len(s)}

SeqsUpTo(S, n) == UNION {[1..k -> S] : k \in 0..n}

(***************************************************************************)
(* Character order of str comparison (code points).                        *)
(***************************************************************************)
Ord(c) ==
    CASE c = "." -> 46
      [] c = "0" -> 48
      [] c = "1" -> 49
      [] c = ":" -> 58
      [] c = "a" -> 97
      [] c = "b" -> 98
      [] c = "o" -> 111
      [] c = "p" -> 112
      [] c = "r" -> 114
      [] c = "v" -> 118
      [] OTHER -> 0

RECURSIVE StrLess(_, _)
StrLess(s, t) ==
    IF t = <<>> THEN FALSE
    ELSE IF s = <<>> THEN TRUE
    ELSE IF Ord(Head(s)) < Ord(Head(t)) THEN TRUE
    ELSE IF Ord(Head(s)) > Ord(Head(t)) THEN FALSE
    ELSE StrLess(Tail(s), Tail(t))

RECURSIVE InsertSorted(_, _)
InsertSorted(x, s) ==
    IF s = <<>> THEN <<x>>
    ELSE IF StrLess(x, Head(s)) THEN <<x>> \o s
    ELSE <<Head(s)>> \o InsertSorted(x, Tail(s))

RECURSIVE SortStrings(_)
SortStrings(s) ==
    IF s = <<>> THEN <<>> ELSE InsertSorted(Head(s), SortStrings(Tail(s)))

\* The parent ids as handed over, in the caller's order.
UnsortedParents(parent_ids) == parent_ids

\* sorted(parent_ids)
sorted(parent_ids) == SortStrings(parent_ids)

RECURSIVE Join(_, _)
Join(sep, parts) ==
    IF parts = <<>> THEN <<>>
    ELSE IF Len(parts) = 1 THEN parts[1]
    ELSE parts[1] \o sep \o Join(sep, Tail(parts))

\* blake2b(...).hexdigest(), taken as injective on the bytes it is given.
blake2b_hexdigest(data) == <<"#">> \o data

calculate_data_id(origin, parent_ids) ==
    blake2b_hexdigest(Join(<<":">>, <<origin>> \o sorted(parent_ids)))

(***************************************************************************)
(* Inputs of calculate_data_id.                                            *)
(***************************************************************************)
IdOrigins == {<<"a">>, <<"b">>, <<"a", ":", "b">>}
IdParentIds == {<<"a">>, <<"b">>}
IdParentLists == SeqsUpTo(IdParentIds, MaxParents)

IsPermutation(s, t) ==
    /\ Len(s) = Len(t)
    /\ \E f \in [1..Len(s) -> 1..Len(s)] :
         /\ \A i, j \in 1..Len(s) : i # j => f[i] # f[j]
         /\ \A i \in 1..Len(s) : t[i] = s[f[i]]

(***************************************************************************)
(* The box, its registry and the filesystem storage.                       *)
(***************************************************************************)
MaxStores == 2

Boxes == {"box1", "box2"}
BoxIds == {"A", "B"}
Procs == {"p1", "p2"}
NoBox == "NoBox"

EmptyMap == [k \in {} |-> None]

\* Transformer chains a box is constructed with (Box.__init__'s *transformers).
Chains == {<<>>, <<"t1", "t2">>}

\* Box.value_types as set by Box.__init__.
BoxValueTypes == <<"Bytes", "Stream", "String", "File">>

BytesSpecification == "boxs.value_types:BytesValueType:"
StringSpecification == "boxs.value_types:StringValueType:utf-8"

\* ValueType.get_specification for the built-in types used here.
get_specification(vt) ==
    CASE vt = "Bytes" -> BytesSpecification
      [] vt = "String" -> StringSpecification
      [] OTHER -> None

\* ValueType.from_specification: the class named by the specification.
from_specification(spec) ==
    CASE spec = BytesSpecification -> "Bytes"
      [] spec = StringSpecification -> "String"
      [] OTHER -> None

\* Values handed to store: bytes, a str (code points) and an object no
\* configured value type supports.
BytesValue == [kind |-> "bytes", data |-> <<65>>]
StrValue == [kind |-> "str", data |-> <<233>>]
ObjValue == [kind |-> "obj", data |-> <<>>]
Values == {BytesValue, StrValue, ObjValue}
NoValue == [kind |-> "none", data |-> <<>>]

\* ValueType.supports of the built-in value types (isinstance checks).
supports(vt, value) ==
    CASE vt = "Bytes" -> value.kind = "bytes"
      [] vt = "Stream" -> value.kind = "stream"
      [] vt = "String" -> value.kind = "str"
      [] vt = "File" -> value.kind = "path"
      [] OTHER -> FALSE

\* A choice that takes the first configured value type without asking it.
first_value_type(types, value, chosen) ==
    IF types = <<>> THEN chosen ELSE Head(types)

\* The loop over self.value_types in Box.store: it has no break, so the last
\* supporting value type wins.
RECURSIVE select_value_type(_, _, _)
select_value_type(types, value, chosen) ==
    IF types = <<>> THEN chosen
    ELSE select_value_type(Tail(types), value,
                           IF supports(Head(types), value) THEN Head(types) ELSE chosen)

\* str.encode('utf-8') on code points below 0x800.
RECURSIVE utf8_encode(_)
utf8_encode(text) ==
    IF text = <<>> THEN <<>>
    ELSE (IF Head(text) < 128 THEN <<Head(text)>>
          ELSE <<192 + (Head(text) \div 64), 128 + (Head(text) % 64)>>)
         \o utf8_encode(Tail(text))

\* bytes.decode('utf-8') for one- and two-byte sequences; DecodeError on
\* bytes that are not valid UTF-8.
DecodeError == <<-1>>

RECURSIVE utf8_decode(_)
utf8_decode(bytes) ==
    IF bytes = <<>> THEN <<>>
    ELSE IF Head(bytes) < 128
         THEN LET rest == utf8_decode(Tail(bytes))
              IN IF rest = DecodeError THEN DecodeError ELSE <<Head(bytes)>> \o rest
    ELSE IF Head(bytes) >= 192 /\ Head(bytes) < 224 /\ Len(bytes) >= 2
            /\ bytes[2] >= 128 /\ bytes[2] < 192
         THEN LET rest == utf8_decode(Tail(Tail(bytes)))
              IN IF rest = DecodeError THEN DecodeError
                 ELSE <<(Head(bytes) - 192) * 64 + (bytes[2] - 128)>> \o rest
    ELSE DecodeError

(***************************************************************************)
(* FileSystemStorage: paths.                                               *)
(***************************************************************************)
LastDot(name) ==
    LET dots == {i \in 1..Len(name) : name[i] = "."}
    IN IF dots = {} THEN 0 ELSE CHOOSE i \in dots : \A j \in dots : j <= i

\* pathlib's PurePath.suffix: from the last dot, unless it is the first or the
\* last character of the name.
path_suffix(name) ==
    LET i == LastDot(name)
    IN IF 1 < i /\ i < Len(name) THEN SubSeq(name, i, Len(name)) ELSE <<>>

\* pathlib's PurePath.with_suffix: the old suffix is replaced by the new one.
with_suffix(name, suffix) ==
    SubSeq(name, 1, Len(name) - Len(path_suffix(name))) \o suffix

\* FileSystemStorage._data_file_paths
data_file_path(data_id, run_id) == <<data_id, with_suffix(run_id, <<".", "data">>)>>
info_file_path(data_id, run_id) == <<data_id, with_suffix(run_id, <<".", "info">>)>>

EmptyStorage == [data |-> EmptyMap, info |-> EmptyMap]

\* A storage whose exists never reports a key.
never_exists(fs, data_id, run_id) == FALSE

\* FileSystemStorage.exists: the info file is there.
exists(fs, data_id, run_id) == info_file_path(data_id, run_id) \in DOMAIN fs.info

(***************************************************************************)
(* State.                                                                  *)
(*   boxes     the Box objects constructed so far (box_id, transformers)   *)
(*   registry  box_registry._BOX_REGISTRY                                  *)
(*   storage   the directory tree of each box's FileSystemStorage          *)
(*   call      the store call each process is in (its local variables)     *)
(*   last      the outcome of the last operation, as its caller sees it    *)
(*   stored    what each successful store call was given, per key          *)
(*   nStores   number of store calls so far                                *)
(*   storeLog  per key, the values of the store calls that returned        *)
(*             successfully, in the order they returned; and the keys two  *)
(*             store calls were in progress for at the same time; and the  *)
(*             keys a store call failed for after it opened the stream     *)
(*   idA, idB  two calls of calculate_data_id: arguments and result        *)
(***************************************************************************)
VARIABLES idA, idB, boxes, registry, storage, call, last, stored, nStores, storeLog,
          fs, fsOut, fsHist, chk, chkOut, recreation, parsing, lazy, tree, config,
          naming

boxVars == <<boxes, registry, storage, call, last, stored, nStores, storeLog>>

\* The state outside the calculate_data_id calls and the box.
extVars == <<fs, fsOut, fsHist, chk, chkOut, recreation, parsing, lazy, tree, config,
             naming>>

vars == <<idA, idB, boxes, registry, storage, call, last, stored, nStores, storeLog,
          extVars>>

\* A value type object: its class and its constructor argument (NoneStr
\* where the class takes none or it was left at None).
NoValueType == [class |-> None, parameter |-> NoneStr]

\* A datastock DataRef: its three ids.
NoStockRef == [stock_id |-> NoneStr, data_id |-> NoneStr, run_id |-> NoneStr]

\* Two DataRef objects (they may name the same item).
RefObjects == {"ref1", "ref2"}

\* A digest as a value: the algorithm and size it was computed with and the
\* bytes it was computed from (the hash taken as free of collisions).
NoDigest == [algorithm |-> None, size |-> 0, of |-> <<>>]

NoChkOut == [op |-> None, result |-> None, value |-> <<>>, digest |-> NoDigest,
             log |-> <<>>]

ExtInit ==
    /\ fs = [info |-> EmptyMap, runs |-> EmptyMap, names |-> EmptyMap, clock |-> 0]
    /\ fsOut = [op |-> None, result |-> None]
    /\ fsHist = [created |-> EmptyMap, items |-> EmptyMap, named |-> EmptyMap,
                 namings |-> 0, failed |-> FALSE]
    /\ chk = [written |-> FALSE, value |-> <<>>, content |-> <<>>, meta |-> EmptyMap]
    /\ chkOut = NoChkOut
    /\ recreation = [op |-> None, value_type |-> NoValueType, specification |-> <<>>,
                     result |-> None, recreated |-> NoValueType,
                     respecification |-> <<>>]
    /\ parsing = [op |-> None, scheme |-> <<>>, ref |-> NoStockRef, uri |-> <<>>,
                  result |-> None, parsed |-> NoStockRef]
    /\ lazy = [info |-> [r \in RefObjects |-> 0], lookups |-> 0,
               log |-> [r \in RefObjects |-> <<>>]]
    /\ tree = [stage |-> "none"]
    /\ config = [init_module |-> None, initialized |-> FALSE, imported |-> {},
                 op |-> None, arg |-> None, result |-> None]
    /\ naming = [p \in {"p1", "p2"} |->
                    [pc |-> "idle", run_id |-> <<"None">>, name |-> <<"None">>,
                     link |-> <<"None">>, result |-> "None"]]

Unbuilt == [box_id |-> None, transformers |-> <<>>, value_types |-> <<>>]

Idle == [pc |-> "idle"]

NoRef == [box_id |-> None, data_id |-> NoneStr, run_id |-> NoneStr]

DataRef(data_id, box_id, run_id) ==
    [box_id |-> box_id, data_id |-> data_id, run_id |-> run_id]

NoInfo == [ref |-> NoRef, origin |-> NoneStr, parents |-> <<>>, meta |-> EmptyMap]

\* What the caller of an operation sees, and what the operation did:
\*   result  "ok" or the exception raised     value   the value loaded
\*   info    the record returned              calls   storage/stream calls made
\*   tcalls  transform_writer/transform_reader calls made
\*   target  the writer/reader the value was written to / read from
\*   pre     what held when the operation was called (see Pre)
\*   origin  store: the value the origin argument resolved to
Outcome(op, box, ref, vt, result, value, info, calls, tcalls, target) ==
    [op |-> op, box |-> box, ref |-> ref, vt |-> vt, result |-> result,
     value |-> value, info |-> info, calls |-> calls, tcalls |-> tcalls,
     target |-> target, origin |-> NoneStr,
     pre |-> [same_box |-> FALSE, recorded |-> FALSE, registered |-> FALSE]]

NoTarget == <<>>

NoOutcome == Outcome(None, None, NoRef, None, None, NoValue, NoInfo, <<>>, <<>>, NoTarget)

(***************************************************************************)
(* calculate_data_id as an operation of its own.                           *)
(***************************************************************************)
NoCall == [origin |-> <<>>, parents |-> <<>>, id |-> NoneStr]

IdCall(origin, parents) ==
    [origin |-> origin, parents |-> parents, id |-> calculate_data_id(origin, parents)]

InitId ==
    /\ idA = NoCall
    /\ idB = NoCall
    /\ boxes = [b \in Boxes |-> Unbuilt]
    /\ registry = [i \in BoxIds |-> NoBox]
    /\ storage = [b \in Boxes |-> EmptyStorage]
    /\ call = [p \in Procs |-> Idle]
    /\ last = NoOutcome
    /\ stored = EmptyMap
    /\ nStores = 0
    /\ storeLog = [returned |-> EmptyMap, overlapped |-> {}, interrupted |-> {}]
    /\ ExtInit

CalcA ==
    \E o \in IdOrigins, ps \in IdParentLists :
        /\ idA' = IdCall(o, ps)
        /\ UNCHANGED <<idB, boxVars, extVars>>

CalcB ==
    \E o \in IdOrigins, ps \in IdParentLists :
        /\ idB' = IdCall(o, ps)
        /\ UNCHANGED <<idA, boxVars, extVars>>

NextId == CalcA \/ CalcB

SpecId == InitId /\ [][NextId]_vars

\* C3: for every origin and every list of parent ids, calculate_data_id
\* returns the same id for every permutation of the parent-id list.
C3_PermutationInvariant ==
    (/\ idA.id # NoneStr
     /\ idB.id # NoneStr
     /\ idA.origin = idB.origin
     /\ IsPermutation(idA.parents, idB.parents))
    => idA.id = idB.id

C3_Witness ==
    /\ idA.id # NoneStr
    /\ idA.id = idB.id
    /\ idA.origin = idB.origin
    /\ idA.parents # idB.parents
    /\ IsPermutation(idA.parents, idB.parents)

\* C4: equal ids only for equal origins and equal parent-id sets (the hash
\* taken as injective): the id differs whenever origin or parent set differs.
C4_IdInjective ==
    (idA.id # NoneStr /\ idB.id # NoneStr /\ idA.id = idB.id)
    => (idA.origin = idB.origin /\ Range(idA.parents) = Range(idB.parents))

(***************************************************************************)
(* Inputs.                                                                 *)
(***************************************************************************)
\* origin arguments: a str or None, given directly or as a zero-argument
\* callable returning it.
OriginValues == {NoneStr, <<>>, <<"o">>}
OriginArgs == [callable : BOOLEAN, value : OriginValues]

ParentId == <<"#", "p">>
ParentArgs == {<<ParentId>>}

RunIds == {<<"r">>, <<"v", ".", "0">>, <<"v", ".", "1">>}
RunArgs == RunIds \cup {NoneStr}

MetaArgs == {EmptyMap, [k \in {"value_type"} |-> BytesSpecification]}

ValueTypeArgs == {None, "Bytes", "String"}

\* run.get_run_id: the process-wide current run id.
get_run_id == <<"r">>

DataIds == {calculate_data_id(o, ps) : o \in OriginValues \ {NoneStr}, ps \in ParentArgs}

Refs == {DataRef(d, i, r) : d \in DataIds, i \in BoxIds, r \in RunIds}

(***************************************************************************)
(* origin.determine_origin                                                 *)
(***************************************************************************)
\* An origin check that also rejects the empty string.
determine_origin_nonempty(origin) ==
    IF origin.value = NoneStr \/ origin.value = <<>> THEN NoneStr ELSE origin.value

\* The resolved origin (the callable's return value, or the value itself);
\* NoneStr stands for the ValueError raised when it is None.
determine_origin(origin) ==
    IF origin.value = NoneStr THEN NoneStr ELSE origin.value

(***************************************************************************)
(* box_registry                                                            *)
(***************************************************************************)
Init ==
    /\ idA = NoCall
    /\ idB = NoCall
    /\ boxes = [b \in Boxes |-> Unbuilt]
    /\ registry = [i \in BoxIds |-> NoBox]
    /\ storage = [b \in Boxes |-> EmptyStorage]
    /\ call = [p \in Procs |-> Idle]
    /\ last = NoOutcome
    /\ stored = EmptyMap
    /\ nStores = 0
    /\ storeLog = [returned |-> EmptyMap, overlapped |-> {}, interrupted |-> {}]
    /\ ExtInit

AllIdle == \A p \in Procs : call[p].pc = "idle"

\* A registry that lets a later registration replace the earlier one.
register_overwrites(reg, box_id, b) ==
    [result |-> "ok", registry |-> [reg EXCEPT ![box_id] = b]]

\* register_box: refuse an id that is already registered.
register_box(reg, box_id, b) ==
    IF reg[box_id] # NoBox
    THEN [result |-> "BoxAlreadyDefined", registry |-> reg]
    ELSE [result |-> "ok", registry |-> [reg EXCEPT ![box_id] = b]]

\* Box.__init__: set the fields, then register_box(self).  When register_box
\* raises, the constructor raises and no Box object comes into being.
Construct(b, box_id, transformers) ==
    /\ AllIdle
    /\ boxes[b] = Unbuilt
    /\ LET r == register_box(registry, box_id, b)
       IN /\ registry' = r.registry
          /\ boxes' = IF r.result = "ok"
                      THEN [boxes EXCEPT ![b] = [box_id |-> box_id,
                                                 transformers |-> transformers,
                                                 value_types |-> BoxValueTypes]]
                      ELSE boxes
          /\ last' = Outcome("Box", b, DataRef(NoneStr, box_id, NoneStr), None, r.result,
                             NoValue, NoInfo, <<>>, <<>>, NoTarget)
    /\ UNCHANGED <<storeLog, extVars, idA, idB, storage, call, stored, nStores>>

\* register_box called with an existing Box object.
Register(b) ==
    /\ AllIdle
    /\ boxes[b] # Unbuilt
    /\ LET r == register_box(registry, boxes[b].box_id, b)
       IN /\ registry' = r.registry
          /\ last' = Outcome("register_box", b, DataRef(NoneStr, boxes[b].box_id, NoneStr),
                             None, r.result, NoValue, NoInfo, <<>>, <<>>, NoTarget)
    /\ UNCHANGED <<storeLog, extVars, idA, idB, boxes, storage, call, stored, nStores>>

\* unregister_box
Unregister(box_id) ==
    /\ AllIdle
    /\ IF registry[box_id] = NoBox
       THEN /\ last' = Outcome("unregister_box", None, DataRef(NoneStr, box_id, NoneStr),
                               None, "BoxNotDefined", NoValue, NoInfo, <<>>, <<>>,
                               NoTarget)
            /\ UNCHANGED registry
       ELSE /\ registry' = [registry EXCEPT ![box_id] = NoBox]
            /\ last' = Outcome("unregister_box", None, DataRef(NoneStr, box_id, NoneStr),
                               None, "ok", NoValue, NoInfo, <<>>, <<>>, NoTarget)
    /\ UNCHANGED <<storeLog, extVars, idA, idB, boxes, storage, call, stored, nStores>>

\* get_box(box_id) for a given box_id: the registered box, or BoxNotDefined.
get_box(reg, box_id) == reg[box_id]

GetBox(box_id) ==
    /\ AllIdle
    /\ last' = Outcome("get_box", get_box(registry, box_id),
                       DataRef(NoneStr, box_id, NoneStr), None,
                       IF get_box(registry, box_id) = NoBox THEN "BoxNotDefined" ELSE "ok",
                       NoValue, NoInfo, <<>>, <<>>, NoTarget)
    /\ UNCHANGED <<storeLog, extVars, idA, idB, boxes, registry, storage, call, stored,
                   nStores>>

(***************************************************************************)
(* Transformers and writers/readers.  A writer or reader is the list of    *)
(* transformers wrapped around the storage's own writer/reader, innermost  *)
(* first; transform_writer and transform_reader return a decorator around  *)
(* the object they receive.                                                *)
(***************************************************************************)
StorageObject == <<"storage">>

Wrap(t, object) == Append(object, t)

Reverse(s) == [i \in 1..Len(s) |-> s[Len(s) + 1 - i]]

\* The transformers in the order they were registered.
registration_order(transformers) == transformers

\* A load that walks the transformers in the order of store.
not_reversed(transformers) == transformers

\* reversed(self.transformers)
reversed(transformers) == Reverse(transformers)

\* for transformer in ...: object = transformer.transform_...(object)
\* The calls made, each with the transformer and the object it received.
RECURSIVE TransformCalls(_, _)
TransformCalls(transformers, object) ==
    IF transformers = <<>> THEN <<>>
    ELSE <<[transformer |-> Head(transformers), received |-> object]>>
         \o TransformCalls(Tail(transformers), Wrap(Head(transformers), object))

RECURSIVE Transformed(_, _)
Transformed(transformers, object) ==
    IF transformers = <<>> THEN object
    ELSE Transformed(Tail(transformers), Wrap(Head(transformers), object))

(***************************************************************************)
(* Value types: writing and reading.                                       *)
(***************************************************************************)
\* write_value_to_writer: the bytes written to the stream and the meta set on
\* the writer; "TypeError" when the value is not of the type the codec
\* handles (io.BytesIO(value) / value.encode raise before a stream is opened).
write_value(vt, value) ==
    CASE vt = "Bytes" /\ value.kind = "bytes" ->
            [result |-> "ok", content |-> value.data, meta |-> EmptyMap]
      [] vt = "String" /\ value.kind = "str" ->
            [result |-> "ok", content |-> utf8_encode(value.data),
             meta |-> [k \in {"encoding"} |-> "utf-8"]]
      [] OTHER -> [result |-> "TypeError", content |-> <<>>, meta |-> EmptyMap]

\* read_value_from_reader on the content of the stream.
read_value(vt, content) ==
    CASE vt = "Bytes" -> [result |-> "ok", value |-> [kind |-> "bytes", data |-> content]]
      [] vt = "String" ->
            IF utf8_decode(content) = DecodeError
            THEN [result |-> "UnicodeDecodeError", value |-> NoValue]
            ELSE [result |-> "ok", value |-> [kind |-> "str", data |-> utf8_decode(content)]]
      [] OTHER -> [result |-> "TypeError", value |-> NoValue]

\* A dict update in which the entries already present are kept.
merge_caller_wins(meta, writer_meta) == meta @@ writer_meta

\* dict(meta); meta.update(writer.meta): the writer's entries win.
merge_meta(meta, writer_meta) == writer_meta @@ meta

\* The meta Box.store hands to the record: the caller's meta.
store_meta(meta, vt) == meta

\* What holds of box b and a reference when an operation is called with them:
\*   same_box    the reference names the box's id
\*   recorded    the info file of the reference's key is in the box's storage
\*   registered  the box is the one registered under its id
Pre(b, ref) ==
    [same_box |-> ref.box_id = boxes[b].box_id,
     recorded |-> info_file_path(ref.data_id, ref.run_id) \in DOMAIN storage[b].info,
     registered |-> registry[boxes[b].box_id] = b]

(***************************************************************************)
(* Box.store, in the steps the code takes:                                 *)
(*   StoreBegin  resolve origin, data id and run id, check existence,      *)
(*               create and wrap the writer, choose the value type         *)
(*   StoreWrite  value_type.write_value_to_writer: open the stream, write  *)
(*               the content, close                                        *)
(*   StoreInfo   writer.write_info: persist the record                     *)
(* A step that raises ends the call.                                       *)
(***************************************************************************)
StoreBegin(p, b, originArg, parents, value, vtArg, metaArg, runArg) ==
    /\ call[p].pc = "idle"
    /\ boxes[b] # Unbuilt
    /\ nStores < MaxStores
    /\ nStores' = nStores + 1
    /\ LET box == boxes[b]
           origin == determine_origin(originArg)
           data_id == calculate_data_id(origin, parents)
           run_id == IF runArg = NoneStr THEN get_run_id ELSE runArg
           ref == DataRef(data_id, box.box_id, run_id)
           writer == Transformed(registration_order(box.transformers), StorageObject)
           tcalls == TransformCalls(registration_order(box.transformers), StorageObject)
           vt == IF vtArg = None
                 THEN select_value_type(box.value_types, value, None)
                 ELSE vtArg
           Fail(result, at, calls, tc) ==
               /\ last' = [Outcome("store", b, at, None, result, NoValue, NoInfo, calls,
                                   tc, NoTarget)
                           EXCEPT !.pre = IF at = NoRef THEN @ ELSE Pre(b, at),
                                  !.origin = originArg.value]
               /\ UNCHANGED <<call, storeLog>>
       IN IF origin = NoneStr
          THEN Fail("ValueError", NoRef, <<>>, <<>>)
          ELSE IF exists(storage[b], data_id, run_id)
          THEN Fail("DataCollision", ref, <<"exists">>, <<>>)
          ELSE IF vt = None
          THEN Fail("MissingValueType", ref, <<"exists", "create_writer">>, tcalls)
          ELSE /\ call' = [call EXCEPT ![p] =
                              [pc |-> "write", box |-> b, ref |-> ref, origin |-> origin,
                               parents |-> parents, value |-> value, vt |-> vt,
                               meta |-> metaArg, writer |-> writer,
                               writer_meta |-> EmptyMap]]
               /\ last' = [Outcome("store", b, ref, vt, "running", value, NoInfo,
                                   <<"exists", "create_writer">>, tcalls, writer)
                           EXCEPT !.pre = Pre(b, ref), !.origin = originArg.value]
               /\ storeLog' = [storeLog EXCEPT !.overlapped =
                                 IF \E q \in Procs \ {p} :
                                        /\ call[q].pc # "idle" /\ call[q].box = b
                                        /\ call[q].ref = ref
                                 THEN @ \cup {<<b, data_id, run_id>>} ELSE @]
    /\ UNCHANGED <<extVars, idA, idB, boxes, registry, storage, stored>>

\* A copy that goes on to the record whether or not it completed.
StoreWriteUnchecked(p) ==
    /\ call[p].pc = "write"
    /\ LET c == call[p]
           w == write_value(c.vt, c.value)
           path == data_file_path(c.ref.data_id, c.ref.run_id)
       IN \E written \in {0, Len(w.content)} :
             /\ storage' = [storage EXCEPT ![c.box].data =
                               (path :> SubSeq(w.content, 1, written)) @@ @]
             /\ call' = [call EXCEPT ![p].pc = "info", ![p].writer_meta = w.meta]
             /\ last' = [last EXCEPT !.calls = Append(@, "as_stream")]
    /\ UNCHANGED <<storeLog, extVars, idA, idB, boxes, registry, stored, nStores>>

\* value_type.write_value_to_writer(value, writer)
StoreWrite(p) ==
    /\ call[p].pc = "write"
    /\ LET c == call[p]
           w == write_value(c.vt, c.value)
           path == data_file_path(c.ref.data_id, c.ref.run_id)
       IN IF w.result # "ok"
          THEN /\ last' = [last EXCEPT !.result = w.result]
               /\ call' = [call EXCEPT ![p] = Idle]
               /\ UNCHANGED <<storage, storeLog>>
          ELSE \* as_stream opens the data file for writing (truncating it);
               \* the copy either completes, or fails with an OSError right
               \* after the file was opened.
               \E written \in {0, Len(w.content)} :
                  /\ storage' = [storage EXCEPT ![c.box].data =
                                    (path :> SubSeq(w.content, 1, written)) @@ @]
                  /\ IF written = Len(w.content)
                     THEN /\ call' = [call EXCEPT ![p].pc = "info",
                                                  ![p].writer_meta = w.meta]
                          /\ last' = [last EXCEPT !.calls = Append(@, "as_stream")]
                     ELSE /\ call' = [call EXCEPT ![p] = Idle]
                          /\ last' = [last EXCEPT !.calls = Append(@, "as_stream"),
                                                  !.result = "OSError"]
                  /\ storeLog' = [storeLog EXCEPT !.interrupted =
                                    IF written = Len(w.content) THEN @
                                    ELSE @ \cup {<<c.box, c.ref.data_id, c.ref.run_id>>}]
    /\ UNCHANGED <<extVars, idA, idB, boxes, registry, stored, nStores>>

\* writer.write_info: the record is the DataInfo built by store, with the
\* caller's meta overlaid by the writer's meta.
StoreInfo(p) ==
    /\ call[p].pc = "info"
    /\ LET c == call[p]
           path == info_file_path(c.ref.data_id, c.ref.run_id)
           info == [ref |-> c.ref, origin |-> c.origin, parents |-> c.parents,
                    meta |-> merge_meta(store_meta(c.meta, c.vt), c.writer_meta)]
       IN /\ storage' = [storage EXCEPT ![c.box].info = (path :> info) @@ @]
          /\ stored' = (<<c.box, c.ref.data_id, c.ref.run_id>> :> c.value) @@ stored
          /\ storeLog' = [storeLog EXCEPT !.returned =
                            LET k == <<c.box, c.ref.data_id, c.ref.run_id>>
                            IN (k :> Append(IF k \in DOMAIN @ THEN @[k] ELSE <<>>,
                                            c.value)) @@ @]
          /\ last' = [last EXCEPT !.result = "ok", !.calls = Append(@, "write_info")]
          /\ call' = [call EXCEPT ![p] = Idle]
    /\ UNCHANGED <<extVars, idA, idB, boxes, registry, nStores>>

\* writer.write_info raises before the info file is written (the disk is
\* full, the process is interrupted): the call ends with the data file
\* written and no record.
StoreInfoFails(p) ==
    /\ call[p].pc = "info"
    /\ last' = [last EXCEPT !.result = "OSError"]
    /\ call' = [call EXCEPT ![p] = Idle]
    /\ storeLog' = [storeLog EXCEPT !.interrupted =
                      @ \cup {<<call[p].box, call[p].ref.data_id, call[p].ref.run_id>>}]
    /\ UNCHANGED <<extVars, idA, idB, boxes, registry, storage, stored, nStores>>

(***************************************************************************)
(* Box.info and Box.load.  They change nothing in the storage: their       *)
(* outcome is a function of the state and the arguments.  calls lists the  *)
(* storage and stream calls made, each with the box whose storage it       *)
(* reached.  The actions keep the outcome in last without the reference    *)
(* and value type they were called with, and with Pre of the call.         *)
(***************************************************************************)
\* A box-id check that accepts every reference.
same_box_always(box, ref) == TRUE

\* data_ref.box_id != self.box_id raises ValueError
same_box(box, ref) == ref.box_id = box.box_id

\* Box.info
InfoOutcome(b, ref) ==
    IF ~same_box(boxes[b], ref)
    THEN Outcome("info", b, ref, None, "ValueError", NoValue, NoInfo, <<>>, <<>>,
                 NoTarget)
    ELSE IF ~exists(storage[b], ref.data_id, ref.run_id)
    THEN Outcome("info", b, ref, None, "DataNotFound", NoValue, NoInfo,
                 <<<<b, "exists">>>>, <<>>, NoTarget)
    ELSE Outcome("info", b, ref, None, "ok", NoValue,
                 storage[b].info[info_file_path(ref.data_id, ref.run_id)],
                 <<<<b, "exists">>, <<b, "create_reader">>, <<b, "read_info">>>>,
                 <<>>, NoTarget)

\* DataRef.info of a reference whose info is not cached yet: api.info looks the
\* box up in the registry by the reference's box_id and asks it.
RefInfo(ref) ==
    IF get_box(registry, ref.box_id) = NoBox
    THEN Outcome("info", None, ref, None, "BoxNotDefined", NoValue, NoInfo, <<>>, <<>>,
                 NoTarget)
    ELSE InfoOutcome(get_box(registry, ref.box_id), ref)

\* Box.load
LoadOutcome(b, ref, vtArg) ==
    LET box == boxes[b]
        found == RefInfo(ref)
        info == found.info
        vt == IF vtArg # None THEN vtArg
              ELSE IF "value_type" \in DOMAIN info.meta
                   THEN from_specification(info.meta["value_type"])
                   ELSE None
        reader == Transformed(reversed(box.transformers), StorageObject)
        tcalls == TransformCalls(reversed(box.transformers), StorageObject)
        dpath == data_file_path(ref.data_id, ref.run_id)
        ipath == info_file_path(ref.data_id, ref.run_id)
        created == Append(found.calls, <<b, "create_reader">>)
        \* StringValueType reads reader.meta (the info file) before the stream
        metaRead == IF vt = "String" THEN Append(created, <<b, "read_info">>) ELSE created
        opened == Append(metaRead, <<b, "as_stream">>)
    IN IF ~same_box(box, ref)
       THEN Outcome("load", b, ref, vtArg, "ValueError", NoValue, NoInfo, <<>>, <<>>,
                    NoTarget)
       ELSE IF found.result # "ok"
       THEN Outcome("load", b, ref, vtArg, found.result, NoValue, NoInfo, found.calls,
                    <<>>, NoTarget)
       ELSE IF vt = None
       THEN Outcome("load", b, ref, vtArg, "KeyError", NoValue, info, found.calls,
                    <<>>, NoTarget)
       ELSE IF vt = "String" /\ ipath \notin DOMAIN storage[b].info
       THEN Outcome("load", b, ref, vtArg, "FileNotFoundError", NoValue, info, metaRead,
                    tcalls, reader)
       ELSE IF dpath \notin DOMAIN storage[b].data
       THEN Outcome("load", b, ref, vtArg, "FileNotFoundError", NoValue, info, opened,
                    tcalls, reader)
       ELSE LET r == read_value(vt, storage[b].data[dpath])
            IN Outcome("load", b, ref, vtArg, r.result, r.value, info, opened, tcalls,
                       reader)

Info(b, ref) ==
    /\ AllIdle
    /\ boxes[b] # Unbuilt
    /\ last' = [InfoOutcome(b, ref) EXCEPT !.ref = NoRef, !.pre = Pre(b, ref)]
    /\ UNCHANGED <<storeLog, extVars, idA, idB, boxes, registry, storage, call, stored,
                   nStores>>

Load(b, ref, vtArg) ==
    /\ AllIdle
    /\ boxes[b] # Unbuilt
    /\ last' = [LoadOutcome(b, ref, vtArg)
                EXCEPT !.ref = NoRef, !.vt = None, !.info = NoInfo, !.pre = Pre(b, ref)]
    /\ UNCHANGED <<storeLog, extVars, idA, idB, boxes, registry, storage, call, stored,
                   nStores>>

(***************************************************************************)
(* The program with a single caller and a single box: operations run one   *)
(* after the other.                                                        *)
(***************************************************************************)
TheBox == "box1"

TheBoxId == "A"

Next ==
    \/ \E ts \in Chains : Construct(TheBox, TheBoxId, ts)
    \/ Register(TheBox)
    \/ \E i \in BoxIds : Unregister(i)
    \/ \E i \in BoxIds : GetBox(i)
    \/ \E o \in OriginArgs, ps \in ParentArgs, v \in Values,
          vt \in ValueTypeArgs, m \in MetaArgs, r \in RunArgs :
            AllIdle /\ StoreBegin("p1", TheBox, o, ps, v, vt, m, r)
    \/ StoreWrite("p1")
    \/ StoreInfo("p1")
    \/ StoreInfoFails("p1")
    \/ \E ref \in Refs : Info(TheBox, ref)
    \/ \E ref \in Refs, vt \in ValueTypeArgs : Load(TheBox, ref, vt)

Spec == Init /\ [][Next]_vars

(***************************************************************************)
(* The program with two callers of one box: store has no lock, so the      *)
(* steps of two store calls interleave in every order.                     *)
(***************************************************************************)
NextConc ==
    \/ \E ts \in Chains : Construct(TheBox, TheBoxId, ts)
    \/ \E p \in Procs, ps \in ParentArgs, v \in Values, vt \in ValueTypeArgs,
          r \in RunArgs :
            StoreBegin(p, TheBox, [callable |-> FALSE, value |-> <<"o">>], ps, v, vt,
                       EmptyMap, r)
    \/ \E p \in Procs : StoreWrite(p)
    \/ \E p \in Procs : StoreInfo(p)
    \/ \E p \in Procs : StoreInfoFails(p)

SpecConc == Init /\ [][NextConc]_vars

(***************************************************************************)
(* The program with two Box objects, each on a storage of its own, and     *)
(* the registry; the stores are the same call in each box.                 *)
(***************************************************************************)
RegOrigin == [callable |-> FALSE, value |-> <<"o">>]

NextReg ==
    \/ \E b \in Boxes, i \in BoxIds : Construct(b, i, <<>>)
    \/ \E b \in Boxes : Register(b)
    \/ \E i \in BoxIds : Unregister(i)
    \/ \E i \in BoxIds : GetBox(i)
    \/ \E b \in Boxes :
            AllIdle /\ StoreBegin("p1", b, RegOrigin, <<>>, BytesValue, "Bytes",
                                  EmptyMap, NoneStr)
    \/ StoreWrite("p1")
    \/ StoreInfo("p1")
    \/ StoreInfoFails("p1")
    \/ \E b \in Boxes, ref \in Refs : Info(b, ref)
    \/ \E b \in Boxes, ref \in Refs, vt \in ValueTypeArgs : Load(b, ref, vt)

SpecReg == Init /\ [][NextReg]_vars

(***************************************************************************)
(* FileSystemStorage used directly: create_writer(...).write_info(...),    *)
(* set_run_name, list_runs, list_items_in_run.                             *)
(*   fs.info   the info files:  path -> record                             *)
(*   fs.runs   runs/<run_id>/:  mtime of the directory, the marker files   *)
(*             (data_id -> mtime) and the links of _named/ (name -> item)  *)
(*   fs.names  runs/_named/:    name -> run the link points to             *)
(*   fs.clock  the time of the last write                                  *)
(*   fsOut     the last call and what it returned or raised                *)
(*   fsHist    what the calls so far were given: the time of the first     *)
(*             write into each run, time and name of each item's first     *)
(*             completed write_info, the name last set for each run        *)
(***************************************************************************)
MaxWrites == 3
MaxNamings == 3

FsDataIds == {<<"d", "1">>, <<"d", "2">>}

\* create_writer(name=...): None or a name.
ItemNames == {NoneStr, <<"n">>}

RunNames == {<<"a">>, <<"b">>}

\* list_runs(limit=...): <<>> stands for None.
Limits == {<<>>, <<1>>, <<2>>}

CallerMeta == [k \in {"both", "caller"} |-> "c"]
WriterMeta == [k \in {"both", "writer"} |-> "w"]

\* The meta handed to write_info and the meta set on the writer before.
FsMetas == {[caller |-> EmptyMap, writer |-> EmptyMap],
            [caller |-> CallerMeta, writer |-> WriterMeta]}

\* meta = dict(meta): the local meta is a new dict, not the caller's object.
dict_copy(meta) == [shared |-> FALSE, value |-> meta]

\* _FileSystemWriter.write_info at time now: write the info file, create the
\* run directory, touch the marker file, link the name.  A directory's mtime
\* changes when an entry is created in it.
write_info(f, d, r, name, meta, writer_meta) ==
    LET now == f.clock + 1
        local == dict_copy(meta)
        merged == merge_meta(local.value, writer_meta)
        record == [ref |-> [data_id |-> d, run_id |-> r], name |-> name,
                   meta |-> merged]
        run0 == IF r \in DOMAIN f.runs THEN f.runs[r] ELSE [mtime |-> now, items |-> EmptyMap,
                                                         named |-> EmptyMap]
        run1 == [run0 EXCEPT !.items = (d :> now) @@ @,
                             !.mtime = IF d \in DOMAIN run0.items THEN @ ELSE now]
        named == name # NoneStr /\ name # <<>>
        clash == named /\ name \in DOMAIN run1.named
        run2 == IF ~named THEN run1
                ELSE [run1 EXCEPT !.mtime = IF run1.named = EmptyMap THEN now ELSE @,
                                  !.named = IF clash THEN @ ELSE (name :> d) @@ @]
    IN [fs |-> [f EXCEPT !.info = (info_file_path(d, r) :> record) @@ @,
                         !.runs = (r :> run2) @@ @,
                         !.clock = now],
        result |-> IF clash THEN "FileExistsError" ELSE "ok",
        record |-> record,
        caller_meta |-> IF local.shared THEN merged ELSE meta]

\* _get_run_names: run_id -> name, read from the links of runs/_named/.
get_run_names(f) ==
    IF \E n1, n2 \in DOMAIN f.names : n1 # n2 /\ f.names[n1] = f.names[n2]
    THEN [result |-> "KeyError", names |-> EmptyMap]
    ELSE [result |-> "ok",
          names |-> [r \in {f.names[n] : n \in DOMAIN f.names} |->
                        CHOOSE n \in DOMAIN f.names : f.names[n] = r]]

\* _create_run_from_run_path
Run(f, r) ==
    [run_id |-> r,
     name |-> IF r \in DOMAIN get_run_names(f).names
              THEN get_run_names(f).names[r] ELSE NoneStr,
     time |-> f.runs[r].mtime]

\* sorted(..., key=lambda x: x.time), oldest first.
RECURSIVE SortByTime(_)
SortByTime(S) ==
    IF S = {} THEN <<>>
    ELSE LET x == CHOOSE x \in S : \A y \in S : x.time <= y.time
         IN <<x>> \o SortByTime(S \ {x})

\* sorted(runs, key=..., reverse=True) without the limit.
newest_first(S) == Reverse(SortByTime(S))

\* list_runs
list_runs(f, limit) ==
    IF get_run_names(f).result # "ok" THEN [result |-> "KeyError", runs |-> <<>>]
    ELSE LET runs == newest_first({Run(f, r) : r \in DOMAIN f.runs})
             n == IF limit = <<>> \/ limit[1] > Len(runs) THEN Len(runs) ELSE limit[1]
         IN [result |-> "ok", runs |-> SubSeq(runs, 1, n)]

\* list_items_in_run
list_items_in_run(f, r) ==
    IF r \notin DOMAIN f.runs THEN [result |-> "ValueError", items |-> <<>>]
    ELSE LET run == f.runs[r]
             named_items == [d \in {run.named[n] : n \in DOMAIN run.named} |->
                                CHOOSE n \in DOMAIN run.named : run.named[n] = d]
             Item(d) == [data_id |-> d, run_id |-> r,
                         name |-> IF d \in DOMAIN named_items THEN named_items[d]
                                  ELSE <<>>,
                         time |-> run.items[d]]
         IN [result |-> "ok", items |-> SortByTime({Item(d) : d \in DOMAIN run.items})]

NoRun == [run_id |-> NoneStr, name |-> NoneStr, time |-> 0]

\* set_run_name: remove the run's current name, link the new one, return
\* the run.
set_run_name(f, r, name) ==
    LET rn == get_run_names(f)
        names1 == IF r \in DOMAIN rn.names
                  THEN [n \in DOMAIN f.names \ {rn.names[r]} |-> f.names[n]]
                  ELSE f.names
        clash == name # NoneStr /\ name \in DOMAIN names1
        names2 == IF name = NoneStr THEN names1 ELSE (name :> r) @@ names1
        f1 == [f EXCEPT !.names = names1]
        f2 == [f EXCEPT !.names = names2]
    IN IF rn.result # "ok" THEN [fs |-> f, result |-> "KeyError", run |-> NoRun]
       ELSE IF clash THEN [fs |-> f1, result |-> "FileExistsError", run |-> NoRun]
       ELSE IF r \notin DOMAIN f.runs
       THEN [fs |-> f2, result |-> "FileNotFoundError", run |-> NoRun]
       ELSE [fs |-> f2, result |-> "ok", run |-> Run(f2, r)]

\* storage.create_writer(ref, name); writer.meta.update(m.writer);
\* writer.write_info(origin, parents, m.caller)
WriteInfo(d, r, name, m) ==
    /\ fs.clock < MaxWrites
    /\ LET w == write_info(fs, d, r, name, m.caller, m.writer)
           now == w.fs.clock
       IN /\ fs' = w.fs
          /\ fsOut' = [op |-> "write_info", result |-> w.result,
                       ref |-> [data_id |-> d, run_id |-> r],
                       meta |-> m.caller, writer_meta |-> m.writer,
                       caller_meta |-> w.caller_meta]
          /\ fsHist' = [fsHist EXCEPT
                          !.created = IF r \in DOMAIN @ THEN @ ELSE (r :> now) @@ @,
                          !.items = IF w.result # "ok" \/ <<d, r>> \in DOMAIN @ THEN @
                                    ELSE (<<d, r>> :> [time |-> now, name |-> name]) @@ @,
                          !.failed = @ \/ w.result # "ok"]
    /\ UNCHANGED <<idA, idB, boxVars, chk, chkOut, recreation, parsing, lazy, tree,
                   config, naming>>

SetRunName(r, name) ==
    /\ fsHist.namings < MaxNamings
    /\ LET c == set_run_name(fs, r, name)
       IN /\ fs' = c.fs
          /\ fsOut' = [op |-> "set_run_name", result |-> c.result, run_id |-> r,
                       name |-> name, run |-> c.run]
          /\ fsHist' = [fsHist EXCEPT
                          !.namings = @ + 1,
                          !.named = IF c.result = "ok" THEN (r :> name) @@ @ ELSE @]
    /\ UNCHANGED <<idA, idB, boxVars, chk, chkOut, recreation, parsing, lazy, tree,
                   config, naming>>

ListRuns(limit) ==
    /\ fsOut' = [op |-> "list_runs", result |-> list_runs(fs, limit).result,
                 limit |-> limit, runs |-> list_runs(fs, limit).runs]
    /\ UNCHANGED <<idA, idB, boxVars, fs, fsHist, chk, chkOut, recreation, parsing, lazy, tree,
                   config, naming>>

ListItemsInRun(r) ==
    /\ fsOut' = [op |-> "list_items_in_run", result |-> list_items_in_run(fs, r).result,
                 run_id |-> r, items |-> list_items_in_run(fs, r).items]
    /\ UNCHANGED <<idA, idB, boxVars, fs, fsHist, chk, chkOut, recreation, parsing, lazy, tree,
                   config, naming>>

\* Runs of a storage: items are written, runs are named and listed.
NextRuns ==
    \/ \E d \in FsDataIds, r \in RunIds :
          WriteInfo(d, r, NoneStr, [caller |-> EmptyMap, writer |-> EmptyMap])
    \/ \E r \in RunIds, n \in RunNames \cup {NoneStr} :
          r \in DOMAIN fs.runs /\ SetRunName(r, n)
    \/ \E limit \in Limits : ListRuns(limit)

SpecRuns == Init /\ [][NextRuns]_vars

\* Items of a storage: items are written with names and meta and listed.
NextItems ==
    \/ \E d \in FsDataIds, r \in RunIds, n \in ItemNames, m \in FsMetas :
          WriteInfo(d, r, n, m)
    \/ \E r \in RunIds : ListItemsInRun(r)

SpecItems == Init /\ [][NextItems]_vars

(***************************************************************************)
(* set_run_name called by two callers at once, in the steps the code       *)
(* takes; the storage takes no lock, so the steps interleave.              *)
(*   naming[p]  the set_run_name call of caller p: run_id and name are its *)
(*              arguments, link the name _remove_name_for_run found for    *)
(*              the run, result how the call ended                         *)
(***************************************************************************)
\* The call is over: it returned, or it raised result.
Ended(c, result) == [c EXCEPT !.pc = "idle", !.result = result]

\* set_run_name up to the _get_run_names() of _remove_name_for_run.
SetNameBegin(p, r, name) ==
    /\ naming[p].pc = "idle"
    /\ fsHist.namings < MaxNamings
    /\ fsHist' = [fsHist EXCEPT !.namings = @ + 1]
    /\ LET rn == get_run_names(fs)
           c == [pc |-> "unlink", run_id |-> r, name |-> name,
                 link |-> IF rn.result = "ok" /\ r \in DOMAIN rn.names
                          THEN rn.names[r] ELSE NoneStr,
                 result |-> "running"]
       IN naming' = [naming EXCEPT ![p] = IF rn.result # "ok"
                                          THEN Ended(c, "KeyError") ELSE c]
    /\ UNCHANGED <<idA, idB, boxVars, fs, fsOut, chk, chkOut, recreation, parsing, lazy,
                   tree, config>>

\* _remove_name_for_run: unlink the link found for the run, if any.
SetNameUnlink(p) ==
    /\ naming[p].pc = "unlink"
    /\ LET c == naming[p]
       IN IF c.link = NoneStr
          THEN /\ naming' = [naming EXCEPT ![p].pc = "link"]
               /\ UNCHANGED fs
          ELSE IF c.link \notin DOMAIN fs.names
          THEN /\ naming' = [naming EXCEPT ![p] = Ended(c, "FileNotFoundError")]
               /\ UNCHANGED fs
          ELSE /\ fs' = [fs EXCEPT !.names = [n \in DOMAIN @ \ {c.link} |-> @[n]]]
               /\ naming' = [naming EXCEPT ![p].pc = "link"]
    /\ UNCHANGED <<idA, idB, boxVars, fsOut, fsHist, chk, chkOut, recreation, parsing,
                   lazy, tree, config>>

\* _set_name_for_run_path, when name is not None: symlink_to.
SetNameLink(p) ==
    /\ naming[p].pc = "link"
    /\ LET c == naming[p]
       IN IF c.name = NoneStr
          THEN /\ naming' = [naming EXCEPT ![p].pc = "return"]
               /\ UNCHANGED fs
          ELSE IF c.name \in DOMAIN fs.names
          THEN /\ naming' = [naming EXCEPT ![p] = Ended(c, "FileExistsError")]
               /\ UNCHANGED fs
          ELSE /\ fs' = [fs EXCEPT !.names = (c.name :> c.run_id) @@ @]
               /\ naming' = [naming EXCEPT ![p].pc = "return"]
    /\ UNCHANGED <<idA, idB, boxVars, fsOut, fsHist, chk, chkOut, recreation, parsing,
                   lazy, tree, config>>

\* _create_run_from_run_path: _get_run_names() again, then the Run.
SetNameReturn(p) ==
    /\ naming[p].pc = "return"
    /\ naming' = [naming EXCEPT ![p] = Ended(@, get_run_names(fs).result)]
    /\ UNCHANGED <<idA, idB, boxVars, fs, fsOut, fsHist, chk, chkOut, recreation,
                   parsing, lazy, tree, config>>

NextNaming ==
    \/ \E r \in RunIds :
          /\ r \notin DOMAIN fs.runs
          /\ WriteInfo(<<"d", "1">>, r, NoneStr, [caller |-> EmptyMap, writer |-> EmptyMap])
    \/ \E p \in Procs, r \in RunIds, n \in RunNames \cup {NoneStr} :
          r \in DOMAIN fs.runs /\ SetNameBegin(p, r, n)
    \/ \E p \in Procs : SetNameUnlink(p)
    \/ \E p \in Procs : SetNameLink(p)
    \/ \E p \in Procs : SetNameReturn(p)

SpecNaming == Init /\ [][NextNaming]_vars

(***************************************************************************)
(* ChecksumTransformer: a writer and a reader wrapped by the transformer,  *)
(* used with BytesValueType.                                               *)
(*   chk.value    the bytes handed to write_value                          *)
(*   chk.content  the bytes in the storage                                 *)
(*   chk.meta     the meta persisted with them                             *)
(*   chkOut       the last call: its result, the value read, the digest    *)
(*                computed and the records logged                          *)
(***************************************************************************)
MaxBytes == 2

ChkBytes == SeqsUpTo({0, 1}, MaxBytes)

\* The algorithms verification is implemented for.
KnownAlgorithms == {"blake2b"}

\* hashlib's hexdigest of the bytes fed to it.
Digest(algorithm, size, bytes) ==
    [algorithm |-> algorithm, size |-> size, of |-> bytes]

\* meta.get(key, default)
meta_get(meta, key, default) == IF key \in DOMAIN meta THEN meta[key] ELSE default

\* transform_writer(writer).write_value(value, BytesValueType()): every byte
\* goes to the wrapped stream and to the digest; closing the stream sets the
\* meta on the writer.
checksum_write(value, algorithm, size) ==
    [written |-> TRUE, value |-> value, content |-> value,
     meta |-> IF algorithm = None THEN EmptyMap
              ELSE [checksum_algorithm |-> algorithm,
                    checksum_digest |-> Digest(algorithm, size, value),
                    checksum_digest_size |-> size]]

\* A reader that verifies whatever the meta says.
verify_always(meta) == TRUE

\* transform_reader: verification is on when the meta names a known algorithm.
verification_enabled(meta) ==
    meta_get(meta, "checksum_algorithm", None) \in KnownAlgorithms

\* A comparison that accepts every digest.
never_mismatch(computed, expected) == FALSE

\* The comparison made when the stream is closed.
checksum_mismatch(computed, expected) == computed # expected

\* transform_reader(reader).read_value(BytesValueType()): stream.read() feeds
\* every byte of the content to the digest, the with block closes the stream.
checksum_read(c) ==
    LET algorithm == meta_get(c.meta, "checksum_algorithm", None)
        size == meta_get(c.meta, "checksum_digest_size", 0)
        expected == meta_get(c.meta, "checksum_digest", NoDigest)
        computed == Digest(algorithm, size, c.content)
    IN IF ~verification_enabled(c.meta)
       THEN [op |-> "read", result |-> "ok", value |-> c.content,
             digest |-> NoDigest,
             log |-> IF algorithm = None
                     THEN <<"WARNING:No checksum algorithm given">>
                     ELSE <<"WARNING:Unknown checksum algorithm">>]
       ELSE IF checksum_mismatch(computed, expected)
       THEN [op |-> "read", result |-> "DataChecksumMismatch", value |-> <<>>,
             digest |-> computed, log |-> <<"INFO:Checksum when reading">>]
       ELSE [op |-> "read", result |-> "ok", value |-> c.content,
             digest |-> computed, log |-> <<"INFO:Checksum when reading">>]

ChkWrite(value, algorithm, size) ==
    /\ chk' = checksum_write(value, algorithm, size)
    /\ chkOut' = [op |-> "write", result |-> "ok", value |-> value,
                  digest |-> meta_get(chk'.meta, "checksum_digest", NoDigest),
                  log |-> IF algorithm = None THEN <<>>
                          ELSE <<"INFO:Checksum when writing">>]
    /\ UNCHANGED <<idA, idB, boxVars, fs, fsOut, fsHist, recreation, parsing, lazy,
                   tree, config, naming>>

\* The stored content is altered behind the storage's back.
ChkCorrupt(bytes) ==
    /\ chk.written
    /\ bytes # chk.content
    /\ chk' = [chk EXCEPT !.content = bytes]
    /\ chkOut' = [NoChkOut EXCEPT !.op = "corrupt"]
    /\ UNCHANGED <<idA, idB, boxVars, fs, fsOut, fsHist, recreation, parsing, lazy,
                   tree, config, naming>>

ChkRead ==
    /\ chk.written
    /\ chkOut' = checksum_read(chk)
    /\ UNCHANGED <<idA, idB, boxVars, fs, fsOut, fsHist, chk, recreation, parsing,
                   lazy, tree, config, naming>>

NextChk ==
    \/ \E value \in ChkBytes, algorithm \in {"blake2b", "unknown", None}, size \in {16, 32} :
          ChkWrite(value, algorithm, size)
    \/ \E bytes \in ChkBytes : ChkCorrupt(bytes)
    \/ ChkRead

SpecChk == Init /\ [][NextChk]_vars

(***************************************************************************)
(* Value types and their specification strings.  A specification is the    *)
(* sequence of its characters; the module name and the class name, which   *)
(* hold no ':', are one token each.                                        *)
(***************************************************************************)
MaxEncodingLen == 4

ModuleName == "boxs.value_types"

ValueTypeClasses == {"BytesValueType", "FileValueType", "JsonValueType",
                     "StreamValueType", "StringValueType"}

\* StringValueType(default_encoding=...)
Encodings == SeqsUpTo({"u", "8", ":"}, MaxEncodingLen)

\* The built-in value types with their constructor arguments.
ValueTypes ==
    {[class |-> c, parameter |-> NoneStr] :
        c \in {"BytesValueType", "JsonValueType", "StreamValueType"}}
    \cup {[class |-> "FileValueType", parameter |-> f] : f \in {NoneStr, <<"/", "f">>}}
    \cup {[class |-> "StringValueType", parameter |-> e] : e \in Encodings}

\* _get_parameter_string: '' unless the class overrides it.
get_parameter_string(value_type) ==
    IF value_type.class = "StringValueType" THEN value_type.parameter ELSE <<>>

\* ValueType.get_specification
ValueType_get_specification(value_type) ==
    Join(<<":">>, << <<ModuleName>>, <<value_type.class>>,
                     get_parameter_string(value_type) >>)

\* str.split(sep, maxsplit=n): at most n splits, the rest in the last part.
split(string, sep, maxsplit) ==
    LET RECURSIVE parts(_, _, _)
        parts(rest, current, n) ==
            IF n = 0 THEN <<current \o rest>>
            ELSE IF rest = <<>> THEN <<current>>
            ELSE IF Head(rest) = sep
            THEN <<current>> \o parts(Tail(rest), <<>>, n - 1)
            ELSE parts(Tail(rest), Append(current, Head(rest)), n)
    IN parts(string, <<>>, maxsplit)

\* _from_parameter_string: cls() unless the class overrides it.
from_parameter_string(class, parameters) ==
    IF class = "StringValueType" THEN [class |-> class, parameter |-> parameters]
    ELSE [class |-> class, parameter |-> NoneStr]

\* ValueType.from_specification: unpacking raises ValueError unless the
\* split gives three parts, getattr raises AttributeError for an unknown
\* class.
ValueType_from_specification(specification) ==
    LET parts == split(specification, ":", 2)
    IN IF Len(parts) # 3
       THEN [result |-> "ValueError", value_type |-> NoValueType]
       ELSE IF parts[1] # <<ModuleName>>
       THEN [result |-> "ModuleNotFoundError", value_type |-> NoValueType]
       ELSE IF Len(parts[2]) # 1 \/ parts[2][1] \notin ValueTypeClasses
       THEN [result |-> "AttributeError", value_type |-> NoValueType]
       ELSE [result |-> "ok",
             value_type |-> from_parameter_string(parts[2][1], parts[3])]

\* ValueType.from_specification(value_type.get_specification()) and the
\* specification of the value type it returns.
Recreate(value_type) ==
    LET specification == ValueType_get_specification(value_type)
        made == ValueType_from_specification(specification)
    IN /\ recreation' = [op |-> "recreate", value_type |-> value_type,
                         specification |-> specification,
                         result |-> made.result,
                         recreated |-> made.value_type,
                         respecification |->
                             IF made.result = "ok"
                             THEN ValueType_get_specification(made.value_type)
                             ELSE <<>>]
       /\ UNCHANGED <<idA, idB, boxVars, fs, fsOut, fsHist, chk, chkOut, parsing, lazy,
                      tree, config, naming>>

NextValueTypes == \E value_type \in ValueTypes : Recreate(value_type)

SpecValueTypes == Init /\ [][NextValueTypes]_vars

(***************************************************************************)
(* datastock's DataRef and its URI.  A URI is the sequence of its          *)
(* characters.                                                             *)
(***************************************************************************)
MaxIdLen == 1

\* Non-empty ids.
Ids == SeqsUpTo({"a", "A", "/", "#"}, MaxIdLen) \ {<<>>}

StockScheme == <<"s", "t", "o", "c", "k">>

Letters == {"a", "A", "c", "k", "n", "o", "s", "t"}

\* urllib.parse.scheme_chars
SchemeChars == Letters \cup {"+", "-", "."}

\* str.lower on the characters used here.
lower(string) == [i \in 1..Len(string) |-> IF string[i] = "A" THEN "a" ELSE string[i]]

\* str.find for a set of characters, from position start on: the index, 0
\* when there is none.
Find(string, chars, start) ==
    LET hits == {i \in start..Len(string) : string[i] \in chars}
    IN IF hits = {} THEN 0 ELSE CHOOSE i \in hits : \A j \in hits : i <= j

\* str.rfind of a character: the last index, 0 when there is none.
RFind(string, char) ==
    LET hits == {i \in 1..Len(string) : string[i] = char}
    IN IF hits = {} THEN 0 ELSE CHOOSE i \in hits : \A j \in hits : i >= j

From(string, i) == SubSeq(string, i, Len(string))

\* DataRef.uri: f'stock://{stock_id}/{data_id}/{run_id}'
uri_of(scheme, stock_id, data_id, run_id) ==
    scheme \o <<":", "/", "/">> \o stock_id \o <<"/">> \o data_id
        \o (IF run_id = NoneStr THEN <<>> ELSE <<"/">> \o run_id)

\* urllib.parse.urlparse: scheme, netloc, then fragment and query are cut off
\* what remains.  The schemes that occur here are not in uses_params, so no
\* parameters are cut off the path.
urlparse(url) ==
    LET colon == Find(url, {":"}, 1)
        has_scheme == /\ colon > 1
                      /\ url[1] \in Letters
                      /\ \A j \in 1..(colon - 1) : url[j] \in SchemeChars
        rest == IF has_scheme THEN From(url, colon + 1) ELSE url
        has_netloc == Len(rest) >= 2 /\ rest[1] = "/" /\ rest[2] = "/"
        delim == Find(rest, {"/", "?", "#"}, 3)
        after == IF ~has_netloc THEN rest
                 ELSE IF delim = 0 THEN <<>> ELSE From(rest, delim)
        hash == Find(after, {"#"}, 1)
        no_fragment == IF hash = 0 THEN after ELSE SubSeq(after, 1, hash - 1)
        mark == Find(no_fragment, {"?"}, 1)
    IN [scheme |-> IF has_scheme THEN lower(SubSeq(url, 1, colon - 1)) ELSE <<>>,
        netloc |-> IF ~has_netloc THEN <<>>
                   ELSE IF delim = 0 THEN From(rest, 3)
                   ELSE SubSeq(rest, 3, delim - 1),
        path |-> IF mark = 0 THEN no_fragment ELSE SubSeq(no_fragment, 1, mark - 1),
        query |-> IF mark = 0 THEN <<>> ELSE From(no_fragment, mark + 1),
        fragment |-> IF hash = 0 THEN <<>> ELSE From(after, hash + 1)]

\* ParseResult.hostname: the netloc without user info and port, lower-cased;
\* None when it is empty.
hostname(netloc) ==
    LET at == RFind(netloc, "@")
        hostinfo == From(netloc, at + 1)
        colon == Find(hostinfo, {":"}, 1)
        name == IF colon = 0 THEN hostinfo ELSE SubSeq(hostinfo, 1, colon - 1)
    IN IF name = <<>> THEN NoneStr ELSE lower(name)

StockRef(data_id, stock_id, run_id) ==
    [stock_id |-> stock_id, data_id |-> data_id, run_id |-> run_id]

\* DataRef.from_uri: ValueError for another scheme and when the path after
\* its first character does not split into two parts at '/'.
from_uri(uri) ==
    LET url_parts == urlparse(uri)
        ids == split(From(url_parts.path, 2), "/", 1)
    IN IF url_parts.scheme # StockScheme
       THEN [result |-> "ValueError", ref |-> NoStockRef]
       ELSE IF Len(ids) # 2
       THEN [result |-> "ValueError", ref |-> NoStockRef]
       ELSE [result |-> "ok",
             ref |-> StockRef(ids[1], hostname(url_parts.netloc), ids[2])]

\* DataRef.__eq__
DataRef_eq(self, other) ==
    /\ self.stock_id = other.stock_id
    /\ self.data_id = other.data_id
    /\ self.run_id = other.run_id

\* DataRef.from_uri(DataRef(data_id, stock_id, run_id).uri)
UriRoundTrip(data_id, stock_id, run_id) ==
    LET ref == StockRef(data_id, stock_id, run_id)
        uri == uri_of(StockScheme, stock_id, data_id, run_id)
        made == from_uri(uri)
    IN /\ parsing' = [op |-> "round_trip", scheme |-> StockScheme, ref |-> ref,
                      uri |-> uri, result |-> made.result, parsed |-> made.ref]
       /\ UNCHANGED <<idA, idB, boxVars, fs, fsOut, fsHist, chk, chkOut, recreation,
                      lazy, tree, config, naming>>

\* DataRef.from_uri on a URI written by hand: any scheme, with or without
\* (NoneStr) a run id segment.
FromUri(scheme, stock_id, data_id, run_id) ==
    LET uri == uri_of(scheme, stock_id, data_id, run_id)
        made == from_uri(uri)
    IN /\ parsing' = [op |-> "from_uri", scheme |-> scheme,
                      ref |-> StockRef(data_id, stock_id, run_id),
                      uri |-> uri, result |-> made.result, parsed |-> made.ref]
       /\ UNCHANGED <<idA, idB, boxVars, fs, fsOut, fsHist, chk, chkOut, recreation,
                      lazy, tree, config, naming>>

NextUri ==
    \/ \E data_id \in Ids, stock_id \in Ids, run_id \in Ids :
          UriRoundTrip(data_id, stock_id, run_id)
    \/ \E scheme \in {StockScheme, <<"n", "o", "t">>}, stock_id \in Ids, data_id \in Ids,
          run_id \in Ids \cup {NoneStr} :
          FromUri(scheme, stock_id, data_id, run_id)

SpecUri == Init /\ [][NextUri]_vars

(***************************************************************************)
(* DataRef.info: the record is looked up when _info is None and kept in    *)
(* _info.  Every lookup that finds the item returns a new record object;   *)
(* objects are numbered by the lookup that made them.                      *)
(*   lazy.info     _info of each DataRef object (0 for None)               *)
(*   lazy.lookups  number of calls of info(data_ref) so far                *)
(*   lazy.log      per DataRef object, its accesses to info: the result,   *)
(*                 the object returned and the lookups the access made     *)
(***************************************************************************)
MaxAccesses == 3

\* A DataRef that looks its record up at every access.
always_none(cached) == TRUE

\* self._info is None
info_is_none(cached) == cached = 0

\* The property info of DataRef object r; found tells whether the store
\* has the item when it is asked.
DataRef_info(state, r, found) ==
    IF info_is_none(state.info[r])
    THEN LET made == state.lookups + 1
         IN [state EXCEPT !.lookups = made,
                          !.info[r] = IF found THEN made ELSE @,
                          !.log[r] = Append(@,
                              [result |-> IF found THEN "ok" ELSE "DataNotFound",
                               object |-> IF found THEN made ELSE 0,
                               lookups |-> 1])]
    ELSE [state EXCEPT !.log[r] = Append(@, [result |-> "ok",
                                             object |-> state.info[r],
                                             lookups |-> 0])]

AccessInfo(r, found) ==
    /\ Len(lazy.log[r]) < MaxAccesses
    /\ lazy' = DataRef_info(lazy, r, found)
    /\ UNCHANGED <<idA, idB, boxVars, fs, fsOut, fsHist, chk, chkOut, recreation,
                   parsing, tree, config, naming>>

NextInfo == \E r \in RefObjects, found \in BOOLEAN : AccessInfo(r, found)

SpecInfo == Init /\ [][NextInfo]_vars

(***************************************************************************)
(* datastock's DataInfo and its value_info.  A DataInfo object holds its   *)
(* parents as DataInfo objects; value_info is the nested dict of it.       *)
(*   tree.stage  "none", then "made" (DataInfo(...)), "serialized"         *)
(*               (value_info()) and "recreated" (from_value_info(...))     *)
(***************************************************************************)
MaxDepth == 2

MaxInfoParents == 2

\* None where a dict is expected.
NoneMap == [k \in {"None"} |-> None]

\* The constructor arguments besides the parents: ref, name, tags and meta
\* (given or left at None).
InfoArgs ==
    {[ref |-> StockRef(<<"d", "1">>, <<"s">>, <<"r">>), name |-> NoneStr,
      tags |-> NoneMap, meta |-> NoneMap],
     [ref |-> StockRef(<<"d", "2">>, <<"s">>, <<"r">>), name |-> <<"n">>,
      tags |-> [k \in {"my"} |-> "tag"], meta |-> [k \in {"my"} |-> "meta"]]}

\* A constructor that keeps the dict arguments as given.
keep_none(dict) == dict

\* tags or {}, meta or {}
or_empty(dict) == IF dict = NoneMap \/ dict = EmptyMap THEN EmptyMap ELSE dict

\* DataInfo.__init__
DataInfo(ref, origin, parents, name, tags, meta) ==
    [class |-> "DataInfo", ref |-> ref, origin |-> origin, parents |-> parents,
     name |-> name, tags |-> or_empty(tags), meta |-> or_empty(meta)]

\* The DataInfo objects whose lineage has at most the given depth.
RECURSIVE DataInfos(_)
DataInfos(depth) ==
    LET below == IF depth = 0 THEN {} ELSE DataInfos(depth - 1)
    IN {DataInfo(a.ref, <<"o">>, parents, a.name, a.tags, a.meta) :
           a \in InfoArgs, parents \in SeqsUpTo(below, MaxInfoParents)}

\* DataInfo.value_info, with DataRef.value_info for the ref.
RECURSIVE value_info(_)
value_info(self) ==
    [ref |-> [data_id |-> self.ref.data_id, run_id |-> self.ref.run_id,
              stock_id |-> self.ref.stock_id],
     origin |-> self.origin,
     name |-> self.name,
     tags |-> self.tags,
     parents |-> [i \in 1..Len(self.parents) |-> value_info(self.parents[i])],
     meta |-> self.meta]

\* DataInfo.from_value_info, with DataRef.from_value_info for the ref.
RECURSIVE from_value_info(_)
from_value_info(info) ==
    DataInfo(StockRef(info["ref"]["data_id"], info["ref"]["stock_id"],
                      info["ref"]["run_id"]),
             info["origin"],
             [i \in 1..Len(info["parents"]) |-> from_value_info(info["parents"][i])],
             info["name"], info["tags"], info["meta"])

MakeInfo(data_info) ==
    /\ tree.stage = "none"
    /\ tree' = [stage |-> "made", info |-> data_info]
    /\ UNCHANGED <<idA, idB, boxVars, fs, fsOut, fsHist, chk, chkOut, recreation,
                   parsing, lazy, config, naming>>

ValueInfo ==
    /\ tree.stage = "made"
    /\ tree' = [stage |-> "serialized", info |-> tree.info,
                value_info |-> value_info(tree.info)]
    /\ UNCHANGED <<idA, idB, boxVars, fs, fsOut, fsHist, chk, chkOut, recreation,
                   parsing, lazy, config, naming>>

FromValueInfo ==
    /\ tree.stage = "serialized"
    /\ tree' = [stage |-> "recreated", info |-> tree.info,
                value_info |-> tree.value_info,
                recreated |-> from_value_info(tree.value_info)]
    /\ UNCHANGED <<idA, idB, boxVars, fs, fsOut, fsHist, chk, chkOut, recreation,
                   parsing, lazy, config, naming>>

NextTree ==
    \/ \E data_info \in DataInfos(MaxDepth) : MakeInfo(data_info)
    \/ ValueInfo
    \/ FromValueInfo

SpecTree == Init /\ [][NextTree]_vars

(***************************************************************************)
(* boxs.config.Configuration: init_module, initialized and the import of   *)
(* the init module.  The state is _init_module, _initialized and the       *)
(* modules imported so far (sys.modules); op, arg and result are the last  *)
(* setter called, its argument and how it returned.                        *)
(***************************************************************************)
\* Module names a caller sets; NoSuchModule cannot be imported.
NoSuchModule == "no_such_module"

ModuleNames == {"boxs_init", "other_init", "third_init", NoSuchModule}

\* Configuration._load_init_module: import the module when one is set and
\* initialized is True; on ImportError set initialized to False (the setter,
\* called with False, only assigns) and raise.
load_init_module(c) ==
    IF c.init_module # None /\ c.initialized = TRUE
    THEN IF c.init_module # NoSuchModule
         THEN [c EXCEPT !.imported = @ \cup {c.init_module}, !.result = "ok"]
         ELSE [c EXCEPT !.initialized = FALSE, !.result = "ImportError"]
    ELSE [c EXCEPT !.result = "ok"]

\* The init_module setter: assign, then _load_init_module.
set_init_module(c, init_module) ==
    load_init_module([c EXCEPT !.init_module = init_module,
                               !.op = "init_module", !.arg = init_module])

\* The initialized setter: _load_init_module when the value goes from False
\* to True, called before the new value is assigned; the assignment is not
\* reached when the call raises.
set_initialized(c, initialized) ==
    LET called == [c EXCEPT !.op = "initialized",
                            !.arg = IF initialized THEN "True" ELSE "False"]
        loaded == IF ~c.initialized /\ initialized
                  THEN load_init_module(called)
                  ELSE [called EXCEPT !.result = "ok"]
    IN IF loaded.result # "ok"
       THEN loaded
       ELSE [loaded EXCEPT !.initialized = initialized]

SetInitModule(init_module) ==
    /\ config' = set_init_module(config, init_module)
    /\ UNCHANGED <<idA, idB, boxVars, fs, fsOut, fsHist, chk, chkOut, recreation,
                   parsing, lazy, tree, naming>>

SetInitialized(initialized) ==
    /\ config' = set_initialized(config, initialized)
    /\ UNCHANGED <<idA, idB, boxVars, fs, fsOut, fsHist, chk, chkOut, recreation,
                   parsing, lazy, tree, naming>>

NextConfig ==
    \/ \E m \in ModuleNames \cup {None} : SetInitModule(m)
    \/ \E v \in BOOLEAN : SetInitialized(v)

SpecConfig == Init /\ [][NextConfig]_vars

(***************************************************************************)
(* Properties of Box.store.                                                *)
(***************************************************************************)
\* A step that begins a store call.
StoreCalled == nStores' = nStores + 1

Key(box, ref) == <<box, ref.data_id, ref.run_id>>

\* C1: a store whose (data_id, run_id) key already exists in the backend
\* raises DataCollision, opens no writer, and leaves the content and the
\* record stored under that key (the whole storage) unchanged.
C1_CollisionLeavesStored ==
    [][(StoreCalled /\ last'.pre.recorded)
       => /\ last'.result = "DataCollision"
          /\ \A i \in 1..Len(last'.calls) :
                last'.calls[i] \notin {"create_writer", "as_stream", "write_info"}
          /\ last'.tcalls = <<>>
          /\ storage' = storage
          /\ stored' = stored
          /\ call' = call]_vars

C1_Witness ==
    /\ last.op = "store"
    /\ last.result = "DataCollision"
    /\ last.pre.recorded
    /\ Key(last.box, last.ref) \in DOMAIN stored
    /\ nStores = 2

\* C2: a store under a run_id that differs from every run_id already stored
\* for that data_id succeeds: a store raises DataCollision only when its own
\* (data_id, run_id) key was stored before.
C2_NewRunIdStores ==
    (last.op = "store" /\ last.result = "DataCollision")
    => Key(last.box, last.ref) \in DOMAIN stored

\* The transformers of the box the last operation was called on.
LastChain == boxes[last.box].transformers

\* C5: store calls transform_writer in registration order (the first
\* transformer receives the storage's writer, each next one the previous
\* result, the value is written to the last result); load calls
\* transform_reader in reverse registration order (the last-registered
\* transformer receives the storage's reader, the value is read from the
\* reader returned by the first-registered one).
C5_TransformerOrder ==
    LET ts == LastChain
        n == Len(ts)
        tc == last.tcalls
        Chained ==
            /\ Len(tc) = n
            /\ n > 0 => tc[1].received = StorageObject
            /\ \A i \in 1..(n - 1) :
                  tc[i + 1].received = Wrap(tc[i].transformer, tc[i].received)
            /\ last.target = IF n = 0 THEN StorageObject
                             ELSE Wrap(tc[n].transformer, tc[n].received)
    IN /\ (last.op = "store" /\ last.target # NoTarget)
          => (Chained /\ \A i \in 1..n : tc[i].transformer = ts[i])
       /\ (last.op = "load" /\ last.target # NoTarget)
          => (Chained /\ \A i \in 1..n : tc[i].transformer = ts[n + 1 - i])

C5_Witness ==
    /\ last.op = "load"
    /\ last.result = "ok"
    /\ Len(last.tcalls) = 2
    /\ last.tcalls[1].transformer = "t2"
    /\ last.target = <<"storage", "t2", "t1">>

\* C6: a successful store records the specification string of the codec it
\* used under the meta key 'value_type' of the persisted record.
C6_ValueTypeRecorded ==
    (last.op = "store" /\ last.result = "ok")
    => LET record == storage[last.box].info[info_file_path(last.ref.data_id,
                                                           last.ref.run_id)]
       IN /\ "value_type" \in DOMAIN record.meta
          /\ record.meta["value_type"] = get_specification(last.vt)

IsRead == last.op \in {"load", "info"}

\* C7: load and info called with a reference whose box_id differs from the
\* invoked box's id raise ValueError without a call to the storage, whether
\* or not the key exists there.
C7_OtherBoxRejected ==
    (IsRead /\ ~last.pre.same_box)
    => (last.result = "ValueError" /\ last.calls = <<>> /\ last.tcalls = <<>>)

C7_Witness ==
    /\ last.op = "load"
    /\ ~last.pre.same_box
    /\ last.pre.recorded
    /\ last.result = "ValueError"

\* C8: load and info called with a reference that names the invoked box but
\* whose key is not in its storage raise DataNotFound, and no reader stream
\* is opened.
C8_NeverStoredNotFound ==
    (IsRead /\ last.pre.same_box /\ ~last.pre.recorded)
    => /\ last.result = "DataNotFound"
       /\ \A i \in 1..Len(last.calls) : last.calls[i][2] # "as_stream"

(***************************************************************************)
(* Properties of the registry.                                             *)
(***************************************************************************)
\* C10: registering, or constructing, a box whose id is already registered
\* raises BoxAlreadyDefined and leaves the registry unchanged: get_box(id)
\* still returns the box registered first, and no second box is bound to
\* the id.
C10_DuplicateIdRefused ==
    [][(last'.op \in {"Box", "register_box"} /\ registry[last'.ref.box_id] # NoBox)
       => /\ last'.result = "BoxAlreadyDefined"
          /\ registry' = registry
          /\ get_box(registry', last'.ref.box_id) = get_box(registry, last'.ref.box_id)
          /\ boxes' = boxes]_vars

C10_Witness ==
    /\ last.op = "register_box"
    /\ last.result = "BoxAlreadyDefined"
    /\ registry[last.ref.box_id] \notin {NoBox, last.box}
    /\ boxes[registry[last.ref.box_id]].box_id = boxes[last.box].box_id

(***************************************************************************)
(* Properties of FileSystemStorage as the box uses it.                     *)
(***************************************************************************)
\* C11: exists(ref) is true if and only if write_info has completed for that
\* ref; a data file written without the record never makes exists(ref) true.
C11_ExistsIffInfoWritten ==
    \A b \in Boxes, d \in DataIds, r \in RunIds :
        exists(storage[b], d, r) <=> (<<b, d, r>> \in DOMAIN stored)

(***************************************************************************)
(* Properties of FileSystemStorage used directly.                          *)
(***************************************************************************)
\* C12: the meta persisted by write_info is the caller's meta overlaid with
\* the writer's meta: a key in both gets the writer's value, a key in only
\* one keeps its value; the caller's meta map is not mutated.
C12_WriterMetaWins ==
    fsOut.op = "write_info"
    => LET persisted == fs.info[info_file_path(fsOut.ref.data_id,
                                               fsOut.ref.run_id)].meta
           m == fsOut.meta
           w == fsOut.writer_meta
       IN /\ DOMAIN persisted = DOMAIN m \cup DOMAIN w
          /\ \A k \in DOMAIN persisted :
                persisted[k] = IF k \in DOMAIN w THEN w[k] ELSE m[k]
          /\ fsOut.caller_meta = m

C12_Witness ==
    /\ fsOut.op = "write_info"
    /\ fsOut.result = "ok"
    /\ fsOut.meta = CallerMeta
    /\ fsOut.writer_meta = WriterMeta
    /\ fs.info[info_file_path(fsOut.ref.data_id, fsOut.ref.run_id)].meta
          = [k \in {"both", "caller", "writer"} |-> IF k = "caller" THEN "c" ELSE "w"]

\* C13: after any sequence of set_run_name calls on existing runs, each run
\* has at most one name, and the Run returned and list_runs report for every
\* run the name given by the most recent set_run_name for it (None when it
\* was cleared or never named).
C13_CurrentRunName ==
    /\ list_runs(fs, <<>>).result = "ok"
    /\ \A r \in DOMAIN fs.runs :
          /\ Cardinality({n \in DOMAIN fs.names : fs.names[n] = r}) <= 1
          /\ \A i \in 1..Len(list_runs(fs, <<>>).runs) :
                LET run == list_runs(fs, <<>>).runs[i]
                IN run.run_id = r
                   => run.name = IF r \in DOMAIN fsHist.named THEN fsHist.named[r]
                                 ELSE NoneStr
    /\ (fsOut.op = "set_run_name" /\ fsOut.result = "ok")
       => (fsOut.run.run_id = fsOut.run_id /\ fsOut.run.name = fsOut.name)

\* The run ids of a list of runs or items.
RunIdsOf(runs) == [i \in 1..Len(runs) |-> runs[i].run_id]

\* The runs written so far, newest first by the time of their first write.
RunsByCreation ==
    RunIdsOf(Reverse(SortByTime({[run_id |-> r, time |-> fsHist.created[r]] :
                                    r \in DOMAIN fsHist.created})))

\* C14: list_runs returns every run with a stored item exactly once, in
\* descending order of the runs' creation time, also when items were stored
\* into an older run later; with limit k the first min(k, n) of that order.
C14_RunsNewestFirst ==
    \A limit \in Limits :
        LET all == RunsByCreation
            n == IF limit = <<>> \/ limit[1] > Len(all) THEN Len(all) ELSE limit[1]
        IN /\ list_runs(fs, limit).result = "ok"
           /\ RunIdsOf(list_runs(fs, limit).runs) = SubSeq(all, 1, n)

\* C15: after completed write_info calls, list_items_in_run(r) returns
\* exactly one item for each data_id d with exists(d, r), each with the name
\* given at creation (empty when unnamed), in ascending order of creation;
\* for a run with no stored item it raises ValueError.
C15_ItemsOfRun ==
    ~fsHist.failed
    => \A r \in RunIds :
          LET listed == list_items_in_run(fs, r)
              ds == {d \in FsDataIds : exists(fs, d, r)}
          IN IF ds = {} THEN listed.result = "ValueError"
             ELSE /\ listed.result = "ok"
                  /\ Len(listed.items) = Cardinality(ds)
                  /\ {listed.items[i].data_id : i \in 1..Len(listed.items)} = ds
                  /\ \A i \in 1..Len(listed.items) :
                        LET item == listed.items[i]
                            made == fsHist.items[<<item.data_id, r>>]
                        IN /\ item.name = IF made.name = NoneStr THEN <<>>
                                          ELSE made.name
                           /\ \A j \in 1..(i - 1) :
                                 fsHist.items[<<listed.items[j].data_id, r>>].time
                                    < made.time

(***************************************************************************)
(* Properties of the ChecksumTransformer.                                  *)
(***************************************************************************)
\* C16: reading through the checksum transformer with a known algorithm:
\* when the stored bytes are the bytes written, the read completes, returns
\* them, and the digest computed equals the stored one; when the stored
\* content differs, the read raises DataChecksumMismatch.
C16_ChecksumVerifies ==
    (/\ chkOut.op = "read"
     /\ meta_get(chk.meta, "checksum_algorithm", None) \in KnownAlgorithms)
    => IF chk.content = chk.value
       THEN /\ chkOut.result = "ok"
            /\ chkOut.value = chk.value
            /\ chkOut.digest = chk.meta["checksum_digest"]
       ELSE chkOut.result = "DataChecksumMismatch"

C16_Witness ==
    /\ chkOut.op = "read"
    /\ meta_get(chk.meta, "checksum_algorithm", None) \in KnownAlgorithms
    /\ chk.content # chk.value
    /\ chkOut.result = "DataChecksumMismatch"

\* C17: when the persisted meta names no checksum algorithm or one that is
\* not known, verification is disabled with a warning: the read completes
\* and returns the stored bytes unchanged, whatever they are.
C17_UnknownAlgorithmReads ==
    (/\ chkOut.op = "read"
     /\ meta_get(chk.meta, "checksum_algorithm", None) \notin KnownAlgorithms)
    => /\ chkOut.result = "ok"
       /\ chkOut.value = chk.content
       /\ chkOut.digest = NoDigest
       /\ chkOut.log = IF "checksum_algorithm" \in DOMAIN chk.meta
                       THEN <<"WARNING:Unknown checksum algorithm">>
                       ELSE <<"WARNING:No checksum algorithm given">>

C17_Witness ==
    /\ chkOut.op = "read"
    /\ meta_get(chk.meta, "checksum_algorithm", None) = "unknown"
    /\ chk.content # chk.value
    /\ chkOut.result = "ok"
    /\ chkOut.value = chk.content

(***************************************************************************)
(* Properties of the value types' specifications.                          *)
(***************************************************************************)
\* C18: for every built-in value type and every parameter value (also an
\* encoding that contains ':'), from_specification(get_specification())
\* yields a value type of the same class with the same parameters, and its
\* get_specification() equals the original specification.
C18_SpecificationRoundTrip ==
    recreation.op = "recreate"
    => /\ recreation.result = "ok"
       /\ recreation.recreated.class = recreation.value_type.class
       /\ recreation.recreated.parameter = recreation.value_type.parameter
       /\ recreation.respecification = recreation.specification

(***************************************************************************)
(* Properties of datastock's DataRef.                                      *)
(***************************************************************************)
\* The path of the URI has a segment after the data id.
HasSegments(uri) ==
    LET tail == From(uri, Find(uri, {":"}, 1) + 3)
    IN Cardinality({i \in 1..Len(tail) : tail[i] = "/"}) >= 2

\* C19: for every DataRef r, whatever its stock id, data id and run id,
\* DataRef.from_uri(r.uri) equals r; a URI with a different scheme or
\* without a run id segment is rejected with ValueError.
C19_UriRoundTrip ==
    /\ parsing.op = "round_trip"
       => parsing.result = "ok" /\ DataRef_eq(parsing.parsed, parsing.ref)
    /\ (/\ parsing.op = "from_uri"
        /\ parsing.scheme # StockScheme \/ ~HasSegments(parsing.uri))
       => parsing.result = "ValueError"

RECURSIVE SameInfo(_, _)
SameInfo(a, b) ==
    /\ DataRef_eq(a.ref, b.ref)
    /\ a.origin = b.origin /\ a.name = b.name
    /\ a.tags = b.tags /\ a.meta = b.meta
    /\ Len(a.parents) = Len(b.parents)
    /\ \A i \in 1..Len(a.parents) : SameInfo(a.parents[i], b.parents[i])

\* tags and meta are maps at every level of a value_info.
RECURSIVE HasMaps(_)
HasMaps(info) ==
    /\ {"tags", "meta"} \subseteq DOMAIN info
    /\ info["tags"] # NoneMap /\ info["meta"] # NoneMap
    /\ \A i \in 1..Len(info["parents"]) : HasMaps(info["parents"][i])

\* C21: for every DataInfo d, DataInfo.from_value_info(d.value_info()) has
\* the same ref, origin, name, tags and meta as d and, recursively, parents
\* with the same refs in the same order; tags and meta in value_info are
\* always maps, never absent or null.
C21_ValueInfoRoundTrip ==
    /\ tree.stage \in {"serialized", "recreated"} => HasMaps(tree.value_info)
    /\ tree.stage = "recreated" => SameInfo(tree.recreated, tree.info)

\* A lineage of depth two in which both parents share an ancestor, with
\* tags and meta not given at the top.
C21_Witness ==
    /\ tree.stage = "recreated"
    /\ Len(tree.info.parents) = 2
    /\ tree.info.parents[1] # tree.info.parents[2]
    /\ tree.info.parents[1].parents # <<>>
    /\ tree.info.parents[1].parents = tree.info.parents[2].parents
    /\ tree.value_info["tags"] = EmptyMap

(***************************************************************************)
(* Properties of the order of the steps of Box.store.                      *)
(***************************************************************************)
\* The contents a completed write_value_to_writer leaves in a data file.
CompleteContents ==
    {write_value(x[1], x[2]).content :
        x \in {y \in {"Bytes", "String"} \X Values :
                  write_value(y[1], y[2]).result = "ok"}}

RefTo(b, d, r) ==
    DataRef(d, IF boxes[b] = Unbuilt THEN None ELSE boxes[b].box_id, r)

\* The key stays invisible until a store of it has succeeded: exists is false
\* and what info and load return for it is DataNotFound.
Invisible(b, d, r) ==
    (boxes[b] # Unbuilt /\ <<b, d, r>> \notin DOMAIN stored)
    => /\ ~exists(storage[b], d, r)
       /\ InfoOutcome(b, RefTo(b, d, r)).result = "DataNotFound"
       /\ \A vt \in ValueTypeArgs :
             LoadOutcome(b, RefTo(b, d, r), vt).result = "DataNotFound"

\* A later store of the key does not collide with the orphaned file.
StoresAgain(b, d, r) ==
    (/\ last.op = "store" /\ last.box = b
     /\ last.ref.data_id = d /\ last.ref.run_id = r
     /\ last.result = "DataCollision")
    => <<b, d, r>> \in DOMAIN stored

\* What a load returns after the later store is what that store wrote.
LoadsLater(b, d, r) ==
    <<b, d, r>> \in DOMAIN stored
    => LET loaded == LoadOutcome(b, RefTo(b, d, r), None)
       IN loaded.result = "ok" /\ loaded.value = stored[<<b, d, r>>]

\* C23: a store that fails after its stream was opened and before its record
\* was persisted leaves the key invisible (exists false, load and info raise
\* DataNotFound); a later store of the key succeeds without DataCollision and
\* a following load returns the content of the later store.
C23_OrphanInvisible ==
    \A k \in storeLog.interrupted :
        /\ Invisible(k[1], k[2], k[3])
        /\ StoresAgain(k[1], k[2], k[3])
        /\ LoadsLater(k[1], k[2], k[3])

ImportedOrFailed(module) ==
    \/ config'.result = "ok" /\ module \in config'.imported
    \/ config'.result = "ImportError" /\ ~config'.initialized

\* C25: with init_module set, whenever initialized changes from False to True
\* the init module has been imported when the setter returns; setting
\* init_module while initialized is True imports it too; when the import
\* fails, the ImportError propagates and initialized is False afterwards.
C25_InitModuleImported ==
    [][/\ (config'.op = "initialized" /\ config'.arg = "True"
           /\ ~config.initialized /\ config.init_module # None)
          => ImportedOrFailed(config.init_module)
       /\ (config'.op = "init_module" /\ config'.arg # None /\ config.initialized)
          => ImportedOrFailed(config'.arg)
      ]_vars

(***************************************************************************)
(* Properties of the choice of the value type in Box.store.                *)
(***************************************************************************)
\* Some value type configured on box b supports the value.
Supported(b, value) ==
    \E i \in 1..Len(boxes[b].value_types) : supports(boxes[b].value_types[i], value)

\* C26: a store without an explicit value_type writes with a configured
\* value type whose supports(value) is true; when none supports the value it
\* raises MissingValueType with the storage unchanged and the key
\* non-existent, and a store raises DataCollision only for a key that exists,
\* so a later store of that key with a supported value does not collide.
C26_ValueTypeSelected ==
    [][StoreCalled
       => /\ \A p \in Procs, ps \in ParentArgs, v \in Values, r \in RunArgs :
                StoreBegin(p, TheBox, [callable |-> FALSE, value |-> <<"o">>], ps, v,
                           None, EmptyMap, r)
                => /\ last'.result = "running"
                      => /\ \E i \in 1..Len(boxes[TheBox].value_types) :
                               boxes[TheBox].value_types[i] = last'.vt
                         /\ supports(last'.vt, v)
                         /\ Supported(TheBox, v)
                   /\ last'.result = "MissingValueType"
                      => /\ ~Supported(TheBox, v)
                         /\ storage' = storage
                         /\ call' = call
                         /\ ~exists(storage'[TheBox], last'.ref.data_id,
                                    last'.ref.run_id)
                   /\ ~Supported(TheBox, v)
                      => last'.result \in {"ValueError", "DataCollision",
                                           "MissingValueType"}
          /\ last'.result = "DataCollision" => last'.pre.recorded
      ]_vars

\* A store of a value no configured type supports ended with MissingValueType
\* after the writer was created and wrapped, and its key does not exist.
C26_Witness ==
    /\ last.op = "store" /\ last.result = "MissingValueType"
    /\ last.calls = <<"exists", "create_writer">>
    /\ last.tcalls # <<>>
    /\ ~exists(storage[last.box], last.ref.data_id, last.ref.run_id)
    /\ storage[last.box].data # EmptyMap

(***************************************************************************)
(* Properties of a write_info that raises.                                 *)
(***************************************************************************)
\* C27: a write_info that raises leaves the storage as it was: when the item
\* name is already used in the run, exists(ref) is not made true, the item is
\* not added to list_items_in_run, and the items of the run keep their names.
C27_FailedWriteInfoLeavesStorage ==
    [][(fs'.clock = fs.clock + 1 /\ fsOut'.op = "write_info" /\ fsOut'.result # "ok")
       => LET d == fsOut'.ref.data_id
              r == fsOut'.ref.run_id
          IN /\ fs'.info = fs.info
             /\ fs'.runs = fs.runs
             /\ exists(fs', d, r) = exists(fs, d, r)
             /\ list_items_in_run(fs', r) = list_items_in_run(fs, r)
      ]_vars

(***************************************************************************)
(* Properties of the files of a key.                                       *)
(***************************************************************************)
\* The record of the key; empty where its info file is missing.
RecordOf(f, d, r) ==
    IF info_file_path(d, r) \in DOMAIN f.info
    THEN <<f.info[info_file_path(d, r)]>> ELSE <<>>

\* C28: two distinct (data_id, run_id) keys never share a data file or an
\* info file, run ids with a '.' included, so a write_info completed for one
\* key changes neither exists nor the record of any other key.
C28_KeysShareNoFile ==
    [][(fs'.clock = fs.clock + 1 /\ fsOut'.op = "write_info")
       => \A d \in FsDataIds, r \in RunIds :
             <<d, r>> # <<fsOut'.ref.data_id, fsOut'.ref.run_id>>
             => /\ data_file_path(d, r)
                      # data_file_path(fsOut'.ref.data_id, fsOut'.ref.run_id)
                /\ info_file_path(d, r)
                      # info_file_path(fsOut'.ref.data_id, fsOut'.ref.run_id)
                /\ exists(fs', d, r) = exists(fs, d, r)
                /\ RecordOf(fs', d, r) = RecordOf(fs, d, r)
      ]_vars

(***************************************************************************)
(* Properties of run names.                                                *)
(***************************************************************************)
\* C29: a run name refers to at most one run: set_run_name(r, n) with n the
\* name of a different run fails, and after the failure both runs have the
\* names they had before (r keeps its previous name).
C29_TakenNameRefused ==
    [][(/\ fsHist'.namings = fsHist.namings + 1
        /\ fsOut'.op = "set_run_name"
        /\ fsOut'.name \in DOMAIN fs.names
        /\ fs.names[fsOut'.name] # fsOut'.run_id)
       => /\ fsOut'.result # "ok"
          /\ fs'.names = fs.names
      ]_vars

\* C30: under every interleaving of two set_run_name calls on one run with
\* different names, the run ends with at most one name link, so that
\* _get_run_names never raises 'Multiple names for single run' and list_runs
\* keeps working.
C30_OneNameUnderInterleaving ==
    /\ \A p \in Procs : naming[p].result # "KeyError"
    /\ (\A p \in Procs : naming[p].pc = "idle")
       => /\ \A r \in DOMAIN fs.runs :
                Cardinality({n \in DOMAIN fs.names : fs.names[n] = r}) <= 1
          /\ get_run_names(fs).result = "ok"
          /\ list_runs(fs, <<>>).result = "ok"

====
